---- MODULE Spec2Model ----
(***************************************************************************)
(* Model of core/scheduler_manager.py (SchedulerManager): the batch        *)
(* planner (_generate_batches) and the schedule execution engine           *)
(* (start/pause/resume/stop, the polling thread and execute_batch).        *)
(*                                                                         *)
(* Time is an absolute count of minutes; minute 0 is 00:00 of day 0 and    *)
(* day 0 is a Monday, so that Weekday(d) is Python's date.weekday().       *)
(***************************************************************************)
EXTENDS Integers, Sequences, FiniteSets, TLC

(***************************************************************************)
(* Calendar arithmetic (datetime / timedelta).                             *)
(***************************************************************************)
MinutesPerDay == 1440

DateOf(t) == t \div MinutesPerDay

TimeOfDay(t) == t % MinutesPerDay

\* date.weekday(): Monday = 0 ... Sunday = 6
Weekday(d) == d % 7

\* the weekend test of lines 217 and 267: weekday() >= 5
IsWeekend(d) == Weekday(d) >= 5

\* datetime.replace(hour=h, minute=m) on a midnight datetime of date d
AtTime(d, hhmm) == d * MinutesPerDay + hhmm

(***************************************************************************)
(* Bounds of the planner inputs.                                           *)
(***************************************************************************)
MaxEmails == 6
MaxPerDay == 3

\* start_time values tried: 00:00, 09:00, 23:58
StartTimes == {0, 540, 1438}

\* batch_interval_minutes values tried
Intervals == {0, 5, 720, 1440}

\* the date of datetime.now() when create_schedule runs
Todays == 0 .. 6

\* the recipient list: n distinct addresses, in input order
Recipients(n) == [i \in 1 .. n |-> i]

\* ScheduleSettings (only the fields _generate_batches reads)
ValidSettings ==
    { s \in [ emails_per_day : 1 .. MaxPerDay,
              emails_per_batch : 1 .. MaxPerDay,
              start_time : StartTimes,
              working_days_only : BOOLEAN,
              batch_interval_minutes : Intervals ] :
        s.emails_per_batch <= s.emails_per_day }

(***************************************************************************)
(* _get_next_working_day: tomorrow, moved past Saturday and Sunday.        *)
(***************************************************************************)
RECURSIVE SkipWeekend(_)
SkipWeekend(d) == IF IsWeekend(d) THEN SkipWeekend(d + 1) ELSE d

GetNextWorkingDay(today) == SkipWeekend(today + 1)

(***************************************************************************)
(* _generate_batches                                                       *)
(***************************************************************************)
\* line 223: settings.emails_per_day // settings.emails_per_batch
MaxDailyBatchesCeil(settings) ==
    (settings.emails_per_day + settings.emails_per_batch - 1)
        \div settings.emails_per_batch

MaxDailyBatches(settings) ==
    settings.emails_per_day \div settings.emails_per_batch

\* line 233: emails[email_index:email_index + emails_per_batch]
\* (email_index is 0-based, as in the code)
BatchSliceOver(emails, email_index, settings) ==
    SubSeq(emails, email_index + 1,
           IF email_index + settings.emails_per_batch + 1 <= Len(emails)
           THEN email_index + settings.emails_per_batch + 1 ELSE Len(emails))

BatchSlice(emails, email_index, settings) ==
    SubSeq(emails, email_index + 1,
           IF email_index + settings.emails_per_batch <= Len(emails)
           THEN email_index + settings.emails_per_batch ELSE Len(emails))

\* line 253: email_index += len(batch_emails)
NextIndexSkip(email_index, batch_emails) == email_index + Len(batch_emails) + 1

NextIndex(email_index, batch_emails) == email_index + Len(batch_emails)

RECURSIVE SumLen(_, _, _)
SumLen(batches, d, i) ==
    IF i > Len(batches) THEN 0
    ELSE (IF DateOf(batches[i].scheduled_time) = d
          THEN Len(batches[i].emails) ELSE 0) + SumLen(batches, d, i + 1)

\* lines 229-230: the recipients already planned on the date d
DayCount(batches, d) == SumLen(batches, d, 1)

\* lines 235-248: a new EmailBatch (status "pending", attempts 0)
NewBatch(batch_emails, scheduled_time) ==
    [ emails |-> batch_emails,
      scheduled_time |-> scheduled_time,
      status |-> "pending",
      attempts |-> 0 ]

\* lines 217-219: the weekend skip of the outer loop
SkipsDay(settings, current_date) ==
    settings.working_days_only /\ IsWeekend(current_date)

\* lines 227-255: the inner loop over one day
RECURSIVE DayLoop(_, _, _, _, _, _, _)
DayLoop(emails, settings, batches, email_index, daily_batches, current_time, current_date) ==
    IF /\ email_index < Len(emails)
       /\ daily_batches < MaxDailyBatches(settings)
       /\ DayCount(batches, current_date) < settings.emails_per_day
    THEN LET batch_emails == BatchSlice(emails, email_index, settings)
         IN  DayLoop(emails, settings,
                     Append(batches, NewBatch(batch_emails, current_time)),
                     NextIndex(email_index, batch_emails),
                     daily_batches + 1,
                     current_time + settings.batch_interval_minutes,
                     current_date)
    ELSE [ batches |-> batches, email_index |-> email_index ]

\* the last date of the calendar (datetime.max): stepping past it raises
\* OverflowError
LastDate == 20

\* _generate_batches left by an exception instead of a return
RaisedPlan == << [ raised |-> TRUE ] >>

\* lines 215-258: the outer loop over the days.  The loop ends when every
\* recipient is planned; a day on which nothing can be planned only moves
\* current_date on, so settings under which no day takes a batch run the
\* loop until line 218 or 258 steps past the last date.  Line 223 divides
\* by emails_per_batch.
RECURSIVE DatesLoop(_, _, _, _, _)
DatesLoop(emails, settings, batches, email_index, current_date) ==
    IF email_index >= Len(emails) THEN batches
    ELSE IF current_date >= LastDate THEN RaisedPlan
    ELSE IF SkipsDay(settings, current_date)
         THEN DatesLoop(emails, settings, batches, email_index, current_date + 1)
         ELSE IF settings.emails_per_batch = 0 THEN RaisedPlan
         ELSE LET r == DayLoop(emails, settings, batches, email_index, 0,
                               AtTime(current_date, settings.start_time),
                               current_date)
              IN  DatesLoop(emails, settings, r.batches, r.email_index,
                            current_date + 1)

GenerateBatches(emails, settings, today) ==
    DatesLoop(emails, settings, << >>, 0, GetNextWorkingDay(today))


(***************************************************************************)
(* State.  now is the wall clock; config the config manager's schedule     *)
(* settings; batches every EmailBatch object created so far, by id; jobs   *)
(* the registry of the schedule library; threads the polling threads;      *)
(* plan the input and output of the planner when it is checked on its own; *)
(* lock the operation that holds schedule_lock, "free" when none does;     *)
(* saved the snapshot files written to the schedules directory, oldest     *)
(* first; stats the creation counter of self.stats; call the last request  *)
(* made by the caller of the manager and what it returned.                 *)
(***************************************************************************)
VARIABLES now, config, current_schedule, batches, active_batches,
          completed_batches, failed_batches, is_running, jobs, threads,
          scheduler_thread, lock, plan, saved, stats, call

vars == << now, config, current_schedule, batches, active_batches,
           completed_batches, failed_batches, is_running, jobs, threads,
           scheduler_thread, lock, plan, saved, stats, call >>

\* the fields of the manager, the registry, the threads and the clock
engineState == << now, config, current_schedule, batches, active_batches,
                  completed_batches, failed_batches, is_running, jobs, threads,
                  scheduler_thread, lock >>

engineVars == << now, config, current_schedule, batches, active_batches,
                 completed_batches, failed_batches, is_running, jobs, threads,
                 scheduler_thread, lock, saved, stats, call >>

(***************************************************************************)
(* Bounds of the engine.                                                   *)
(***************************************************************************)
MaxDay == 1
MaxBatches == 3
MaxThreads == 2
MaxDispatch == 2
MaxRetryAttempts == 2
MaxSchedules == 1
MaxEngineEmails == 2
MaxCallEmails == 1
MaxDayEmails == 3
MaxTwoSchedules == 2

\* clock readings at which a thread acts: 08:00, 09:00, 09:05
ClockMinutes == {480, 540, 545}

ClockTimes == { AtTime(d, m) : d \in 0 .. MaxDay, m \in ClockMinutes }

\* retry_delay_minutes values tried (config default: 30)
RetryDelays == {0, 30}

\* the config manager's schedule settings read by execute_batch
Configs ==
    [ retry_failed_emails : BOOLEAN,
      retry_attempts : 0 .. MaxRetryAttempts,
      retry_delay_minutes : RetryDelays ]

\* the settings create_schedule is called with in the engine runs
EngineSettings ==
    { s \in ValidSettings :
        /\ s.emails_per_day = 2
        /\ s.emails_per_batch = 1
        /\ s.start_time = 540
        /\ s.batch_interval_minutes = 5
        /\ ~s.working_days_only }

\* settings that break the constraints: emails_per_batch above
\* emails_per_day, emails_per_batch zero
BadSettings ==
    { [ emails_per_day |-> 1, emails_per_batch |-> 2, start_time |-> 540,
        working_days_only |-> FALSE, batch_interval_minutes |-> 5 ],
      [ emails_per_day |-> 2, emails_per_batch |-> 0, start_time |-> 540,
        working_days_only |-> FALSE, batch_interval_minutes |-> 5 ] }

ThreadIds == 1 .. MaxThreads

NoJob == [ batch |-> 0, at |-> 0, next_run |-> 0, live |-> FALSE ]

DeadThread == [ pc |-> "dead", runnable |-> << >>, job |-> NoJob ]

NoSchedule == [ schedule_id |-> 0, status |-> "none" ]

\* self.stats after __init__ (the counters of the dispatches are left out)
NoStats == [ total_schedules_created |-> 0 ]

\* the requests of the caller are not recorded
NoCall == [ op |-> "off", ok |-> FALSE, again |-> FALSE, n |-> 0,
            valid |-> FALSE, planned |-> FALSE ]

\* no request made yet, requests are recorded
FirstCall == [ NoCall EXCEPT !.op = "none" ]

NoPlan == [ emails |-> << >>, settings |-> CHOOSE s \in ValidSettings : TRUE,
            today |-> 0, done |-> FALSE, batches |-> << >> ]


(***************************************************************************)
(* Helpers on lists.                                                       *)
(***************************************************************************)
\* list.remove(x) guarded by "x in list": drops the first occurrence
RECURSIVE RemoveFirst(_, _)
RemoveFirst(list, x) ==
    IF list = << >> THEN << >>
    ELSE IF Head(list) = x THEN Tail(list)
         ELSE << Head(list) >> \o RemoveFirst(Tail(list), x)

\* sorted(): stable insertion by next_run (Job.__lt__ compares next_run)
RECURSIVE InsertByNextRun(_, _)
InsertByNextRun(sorted, j) ==
    IF sorted = << >> THEN << j >>
    ELSE IF Head(sorted).next_run <= j.next_run
         THEN << Head(sorted) >> \o InsertByNextRun(Tail(sorted), j)
         ELSE << j >> \o sorted

RECURSIVE SortByNextRun(_)
SortByNextRun(list) ==
    IF list = << >> THEN << >>
    ELSE InsertByNextRun(SortByNextRun(SubSeq(list, 1, Len(list) - 1)),
                         list[Len(list)])

(***************************************************************************)
(* The job registry of the schedule library, as _schedule_batch and        *)
(* _run_scheduler use it: schedule.every().day.at("HH:MM").do(f) arms a    *)
(* job that is due at the next occurrence of HH:MM and, having run, is due *)
(* again at the following one; it stays armed until schedule.clear().      *)
(***************************************************************************)
\* every().day.at(at): the next occurrence of at strictly after the clock
\* reading t (a reading within minute HH:MM is past HH:MM:00)
NextRun(at, t) ==
    IF at > TimeOfDay(t) THEN AtTime(DateOf(t), at)
    ELSE AtTime(DateOf(t) + 1, at)

\* lines 374-375: batch_time = scheduled_time.strftime("%H:%M"); the job
\* is keyed by the time of day only
JobAt(scheduled_time) == TimeOfDay(scheduled_time)

\* _schedule_batch(batch) at clock reading t
ScheduleBatch(registry, b, scheduled_time, t) ==
    Append(registry, [ batch |-> b,
                       at |-> JobAt(scheduled_time),
                       next_run |-> NextRun(JobAt(scheduled_time), t),
                       live |-> TRUE ])

\* Job.should_run
ShouldRun(j, t) == t >= j.next_run

\* run_pending(): the due jobs, sorted, fixed when the pass begins
RunnableJobs(registry, t) ==
    SortByNextRun(SelectSeq(registry, LAMBDA j : ShouldRun(j, t)))

\* Job.run() re-arms the job object it ran; the object is found in the
\* registry unless a clear() dropped it meanwhile
RECURSIVE Rearm(_, _, _)
Rearm(registry, j, t) ==
    IF registry = << >> THEN << >>
    ELSE IF Head(registry) = j
         THEN << [ j EXCEPT !.next_run = NextRun(j.at, t) ] >> \o Tail(registry)
         ELSE << Head(registry) >> \o Rearm(Tail(registry), j, t)

\* schedule.clear() seen from a thread inside run_pending(): the jobs it
\* still holds are no longer in the registry
Detach(thread) ==
    [ thread EXCEPT
        !.runnable = [ i \in 1 .. Len(thread.runnable) |->
                         [ thread.runnable[i] EXCEPT !.live = FALSE ] ],
        !.job = [ thread.job EXCEPT !.live = FALSE ] ]

ClearedThreads == [ t \in ThreadIds |-> Detach(threads[t]) ]


(***************************************************************************)
(* SchedulerManager state after __init__ (lines 63-91).                    *)
(***************************************************************************)
Init ==
    /\ now = AtTime(0, 480)
    /\ config \in Configs
    /\ current_schedule = NoSchedule
    /\ batches = << >>
    /\ active_batches = << >>
    /\ completed_batches = << >>
    /\ failed_batches = << >>
    /\ is_running = FALSE
    /\ jobs = << >>
    /\ threads = [ t \in ThreadIds |-> DeadThread ]
    /\ scheduler_thread = 0
    /\ lock = "free"
    /\ plan = NoPlan
    /\ saved = << >>
    /\ stats = NoStats
    /\ call = NoCall

\* the batch ids held by a list
Ids(list) == { list[i] : i \in 1 .. Len(list) }

\* Thread.is_alive()
IsAlive(t) == t # 0 /\ threads[t].pc # "dead"

FreeThreads == { t \in ThreadIds : threads[t].pc = "dead" }

\* an EmailBatch object of the engine: the planner's record plus the
\* metadata of lines 395-399, the schedule it was created for, the number
\* of times it was handed to send_email_batch and the dates on which that
\* happened
EngineBatch(b, sid, original, attempts) ==
    [ emails |-> b.emails,
      scheduled_time |-> b.scheduled_time,
      status |-> b.status,
      attempts |-> attempts,
      original_batch_id |-> original,
      schedule_id |-> sid,
      dispatched |-> 0,
      started_on |-> << >> ]

\* lines 293-295 and 498-503: arm every pending batch of the list
RECURSIVE ArmPending(_, _, _, _)
ArmPending(registry, list, bs, t) ==
    IF list = << >> THEN registry
    ELSE ArmPending(IF bs[Head(list)].status = "pending"
                    THEN ScheduleBatch(registry, Head(list),
                                       bs[Head(list)].scheduled_time, t)
                    ELSE registry,
                    Tail(list), bs, t)

(***************************************************************************)
(* What the caller saw of its last request: the operation, the value it    *)
(* returned, whether the request before it was the same operation and, for *)
(* create_schedule, the number of recipients, whether the settings met     *)
(* the constraints of ScheduleSettings, and whether _generate_batches ran. *)
(***************************************************************************)
Returned(op, ok, n, valid, planned) ==
    IF call = NoCall THEN NoCall
    ELSE [ op |-> op, ok |-> ok, again |-> (call.op = op), n |-> n,
           valid |-> valid, planned |-> planned ]

\* a request without arguments
Answered(op, ok) == Returned(op, ok, 0, FALSE, FALSE)

\* the constraints on emails_per_day and emails_per_batch
SettingsValid(settings) ==
    /\ settings.emails_per_day >= 1
    /\ settings.emails_per_batch >= 1
    /\ settings.emails_per_batch <= settings.emails_per_day

(***************************************************************************)
(* create_schedule (lines 111-202)                                         *)
(***************************************************************************)
\* _save_schedule of schedule_data (lines 157-167, 615-631): the file holds
\* the status and the batches as they are when it is written
Snapshot(sid, status, planned) ==
    [ schedule_id |-> sid,
      status |-> status,
      batches |-> [ i \in 1 .. Len(planned) |->
                      [ emails |-> planned[i].emails,
                        scheduled_time |-> planned[i].scheduled_time,
                        status |-> planned[i].status ] ] ]

\* the returns with success=False: no recipients (line 116), no batch
\* planned (line 149), an exception in the planner (line 196)
CreateFailsOnRaise(emails, planned) == planned = RaisedPlan

CreateFails(emails, planned) ==
    \/ emails = << >>
    \/ planned = << >>
    \/ planned = RaisedPlan

\* limit caps the number of schedules created in a run
CreateWithin(n, settings, limit) ==
    LET emails == Recipients(n)
        planned == IF emails = << >> THEN << >>
                   ELSE GenerateBatches(emails, settings, DateOf(now))
        sid == current_schedule.schedule_id + 1
        first == Len(batches)
    IN  IF CreateFails(emails, planned)
        THEN /\ emails = << >> \/ lock = "free"
             /\ call' = Returned("create", FALSE, n, SettingsValid(settings),
                                 emails # << >>)
             /\ UNCHANGED << now, config, current_schedule, batches,
                             active_batches, completed_batches, failed_batches,
                             is_running, jobs, threads, scheduler_thread, plan, lock,
                             saved, stats >>
        ELSE /\ lock = "free"
             /\ sid <= limit
             /\ first + Len(planned) <= MaxBatches
             /\ batches' = batches \o
                    [ i \in 1 .. Len(planned) |-> EngineBatch(planned[i], sid, 0, 0) ]
             /\ active_batches' = [ i \in 1 .. Len(planned) |-> first + i ]
             /\ current_schedule' = [ schedule_id |-> sid, status |-> "created",
                                      settings |-> settings ]
             /\ saved' = Append(saved, Snapshot(sid, "created", planned))
             /\ stats' = [ stats EXCEPT !.total_schedules_created = @ + 1 ]
             /\ call' = Returned("create", TRUE, n, SettingsValid(settings), TRUE)
             /\ UNCHANGED << now, config, completed_batches, failed_batches,
                             is_running, jobs, threads, scheduler_thread, plan, lock >>

CreateSchedule(n, settings) == CreateWithin(n, settings, MaxSchedules)

(***************************************************************************)
(* start_schedule (lines 272-311)                                          *)
(***************************************************************************)
StartSchedule ==
    /\ current_schedule.status # "none"
    /\ ~is_running
    /\ lock = "free"
    /\ FreeThreads # {}
    /\ LET t == CHOOSE x \in FreeThreads : \A y \in FreeThreads : x <= y
       IN  /\ threads' = [ ClearedThreads EXCEPT
                             ![t] = [ pc |-> "loop", runnable |-> << >>,
                                      job |-> NoJob ] ]
           /\ scheduler_thread' = t
    /\ is_running' = TRUE
    /\ jobs' = ArmPending(<< >>, active_batches, batches, now)
    /\ current_schedule' = [ current_schedule EXCEPT !.status = "running" ]
    /\ call' = Answered("start", TRUE)
    /\ UNCHANGED << now, config, batches, active_batches, completed_batches,
                    failed_batches, plan, lock, saved, stats >>

\* lines 275-281: no schedule, or is_running already set
StartRefused ==
    /\ current_schedule.status = "none" \/ is_running
    /\ call' = Answered("start", FALSE)
    /\ UNCHANGED << engineState, plan, saved, stats >>

(***************************************************************************)
(* stop_schedule (lines 428-465)                                           *)
(***************************************************************************)
\* lines 448-458, reached when the join did not raise
StopBody ==
    /\ current_schedule' =
           IF current_schedule.status # "none"
           THEN [ current_schedule EXCEPT !.status = "stopped" ]
           ELSE current_schedule
    /\ batches' = [ b \in DOMAIN batches |->
                      IF b \in Ids(active_batches)
                      THEN [ batches[b] EXCEPT !.status = "cancelled" ]
                      ELSE batches[b] ]
    /\ failed_batches' = failed_batches \o active_batches
    /\ active_batches' = << >>

\* called from the caller's thread; line 431 refuses it when nothing is
\* running
StopScheduleUnguarded ==
    /\ lock = "free"
    /\ is_running' = FALSE
    /\ jobs' = << >>
    /\ threads' = ClearedThreads
    /\ StopBody
    /\ call' = Answered("stop", TRUE)
    /\ UNCHANGED << now, config, completed_batches, scheduler_thread, plan, lock,
                    saved, stats >>

StopSchedule ==
    /\ is_running
    /\ lock = "free"
    /\ is_running' = FALSE
    /\ jobs' = << >>
    /\ threads' = ClearedThreads
    /\ StopBody
    /\ call' = Answered("stop", TRUE)
    /\ UNCHANGED << now, config, completed_batches, scheduler_thread, plan, lock,
                    saved, stats >>

\* stop_schedule while the polling thread is alive, up to the join of line
\* 446: the caller holds schedule_lock and waits for the thread, which goes
\* on with what it is doing
StopBegin ==
    /\ is_running
    /\ lock = "free"
    /\ IsAlive(scheduler_thread)
    /\ is_running' = FALSE
    /\ jobs' = << >>
    /\ threads' = ClearedThreads
    /\ lock' = "stop"
    /\ UNCHANGED << now, config, current_schedule, batches, active_batches,
                    completed_batches, failed_batches, scheduler_thread, plan,
                    saved, stats, call >>

\* the join has returned or timed out: lines 448-461, then the lock is
\* released
StopEnd ==
    /\ lock = "stop"
    /\ StopBody
    /\ lock' = "free"
    /\ call' = Answered("stop", TRUE)
    /\ UNCHANGED << now, config, completed_batches, is_running, jobs, threads,
                    scheduler_thread, plan, saved, stats >>

\* lines 431-433: nothing is running
StopRefused ==
    /\ ~is_running
    /\ call' = Answered("stop", FALSE)
    /\ UNCHANGED << engineState, plan, saved, stats >>

(***************************************************************************)
(* pause_schedule (lines 467-487)                                          *)
(***************************************************************************)
PauseSchedule ==
    /\ is_running
    /\ lock = "free"
    /\ jobs' = << >>
    /\ threads' = ClearedThreads
    /\ current_schedule' =
           IF current_schedule.status # "none"
           THEN [ current_schedule EXCEPT !.status = "paused" ]
           ELSE current_schedule
    /\ call' = Answered("pause", TRUE)
    /\ UNCHANGED << now, config, batches, active_batches, completed_batches,
                    failed_batches, is_running, scheduler_thread, plan, lock,
                    saved, stats >>

\* lines 470-471: nothing is running
PauseRefused ==
    /\ ~is_running
    /\ call' = Answered("pause", FALSE)
    /\ UNCHANGED << engineState, plan, saved, stats >>

(***************************************************************************)
(* resume_schedule (lines 489-513)                                         *)
(***************************************************************************)
ResumeOffset == 5

\* lines 501-502: a pending batch whose time has passed is moved to now + 5
Resumed(b) ==
    IF /\ b \in Ids(active_batches)
       /\ batches[b].status = "pending"
       /\ batches[b].scheduled_time <= now
    THEN [ batches[b] EXCEPT !.scheduled_time = now + ResumeOffset ]
    ELSE batches[b]

ResumeSchedule ==
    /\ current_schedule.status = "paused"
    /\ lock = "free"
    /\ batches' = [ b \in DOMAIN batches |-> Resumed(b) ]
    /\ jobs' = ArmPending(jobs, active_batches, batches', now)
    /\ current_schedule' = [ current_schedule EXCEPT !.status = "running" ]
    /\ call' = Answered("resume", TRUE)
    /\ UNCHANGED << now, config, active_batches, completed_batches,
                    failed_batches, is_running, threads, scheduler_thread, plan, lock,
                    saved, stats >>

\* lines 492-493: no schedule, or its status is not paused
ResumeRefused ==
    /\ current_schedule.status # "paused"
    /\ call' = Answered("resume", FALSE)
    /\ UNCHANGED << engineState, plan, saved, stats >>


(***************************************************************************)
(* _run_scheduler (lines 407-426): the polling thread t.                   *)
(*   pc "loop": at the while test; "run": inside run_pending();            *)
(*   "send": inside execute_batch, in send_email_batch; "dead": ended.     *)
(***************************************************************************)
\* lines 411-413: the while test and the start of run_pending()
LoopTest(running, registry) ==
    IF running
    THEN [ pc |-> "run", runnable |-> RunnableJobs(registry, now), job |-> NoJob ]
    ELSE DeadThread

\* the first pass of a thread just started
PollRunPending(t) ==
    /\ threads[t].pc = "loop"
    /\ threads' = [ threads EXCEPT ![t] = LoopTest(is_running, jobs) ]
    /\ UNCHANGED << now, config, current_schedule, batches, active_batches,
                    completed_batches, failed_batches, is_running, jobs,
                    scheduler_thread, plan, lock, saved, stats, call >>

\* lines 316-327: execute_batch of the next due job calls send_email_batch
DispatchBegin(t) ==
    /\ threads[t].pc = "run"
    /\ threads[t].runnable # << >>
    /\ LET j == Head(threads[t].runnable)
       IN  /\ batches[j.batch].dispatched < MaxDispatch
           /\ batches' = [ batches EXCEPT
                             ![j.batch].dispatched = @ + 1,
                             ![j.batch].started_on = Append(@, DateOf(now)) ]
           /\ threads' = [ threads EXCEPT ![t] =
                             [ pc |-> "send",
                               runnable |-> Tail(threads[t].runnable),
                               job |-> j ] ]
    /\ UNCHANGED << now, config, current_schedule, active_batches,
                    completed_batches, failed_batches, is_running, jobs,
                    scheduler_thread, plan, lock, saved, stats, call >>

\* _update_schedule_status (lines 515-534) on the lists as they then are
UpdatedStatus(schedule, active, completed, failed) ==
    IF /\ schedule.status # "none"
       /\ active = << >>
       /\ Len(completed) + Len(failed) + Len(active) > 0
    THEN [ schedule EXCEPT !.status = "completed" ]
    ELSE schedule

\* Job.run(): the thread is back in run_pending() and the job it ran is due
\* again at the next occurrence of its time
JobDone(t, registry) ==
    /\ jobs' = Rearm(registry, threads[t].job, now)
    /\ threads' = [ threads EXCEPT ![t].pc = "run", ![t].job = NoJob ]

\* lines 330-339, 356-361: the transport reports success
DispatchSucceeds(t) ==
    /\ threads[t].pc = "send"
    /\ LET b == threads[t].job.batch
           active == RemoveFirst(active_batches, b)
           completed == Append(completed_batches, b)
       IN  /\ batches' = [ batches EXCEPT ![b].status = "sent" ]
           /\ completed_batches' = completed
           /\ active_batches' = active
           /\ current_schedule' =
                  UpdatedStatus(current_schedule, active, completed, failed_batches)
    /\ JobDone(t, jobs)
    /\ UNCHANGED << now, config, failed_batches, is_running,
                    scheduler_thread, plan, lock, saved, stats, call >>

\* lines 352-353: the retry test, on the attempts already incremented
RetryWanted(attempts) ==
    config.retry_failed_emails /\ attempts < config.retry_attempts

\* _schedule_retry (lines 379-405): the retry batch of the failed batch b
RetryBatch(b, failed) ==
    [ emails |-> failed.emails,
      scheduled_time |-> now + config.retry_delay_minutes,
      status |-> "pending",
      attempts |-> failed.attempts,
      original_batch_id |-> b,
      schedule_id |-> failed.schedule_id,
      dispatched |-> 0,
      started_on |-> << >> ]

\* lines 340-361: the transport reports failure
DispatchFails(t) ==
    /\ threads[t].pc = "send"
    /\ LET b == threads[t].job.batch
           failed == [ batches[b] EXCEPT !.status = "failed",
                                         !.attempts = @ + 1 ]
           retry == RetryWanted(failed.attempts)
           r == Len(batches) + 1
           rb == RetryBatch(b, failed)
           active == RemoveFirst(IF retry THEN Append(active_batches, r)
                                 ELSE active_batches, b)
           failedList == Append(failed_batches, b)
       IN  /\ retry => r <= MaxBatches
           /\ batches' = IF retry
                         THEN Append([ batches EXCEPT ![b] = failed ], rb)
                         ELSE [ batches EXCEPT ![b] = failed ]
           /\ failed_batches' = failedList
           /\ active_batches' = active
           /\ current_schedule' =
                  UpdatedStatus(current_schedule, active, completed_batches,
                                failedList)
           /\ JobDone(t, IF retry
                         THEN ScheduleBatch(jobs, r, rb.scheduled_time, now)
                         ELSE jobs)
    /\ UNCHANGED << now, config, completed_batches, is_running,
                    scheduler_thread, plan, lock, saved, stats, call >>

\* lines 363-371: send_email_batch raises
DispatchRaises(t) ==
    /\ threads[t].pc = "send"
    /\ LET b == threads[t].job.batch
       IN  /\ batches' = [ batches EXCEPT ![b].status = "failed",
                                          ![b].attempts = @ + 1 ]
           /\ active_batches' = RemoveFirst(active_batches, b)
           /\ failed_batches' = Append(failed_batches, b)
    /\ JobDone(t, jobs)
    /\ UNCHANGED << now, config, current_schedule, completed_batches,
                    is_running, scheduler_thread, plan, lock, saved, stats, call >>

\* lines 414-420: the pass is over, the thread has slept, and it tests
\* whether every batch is done; if so it calls stop_schedule itself
\* (lines 431-446) and leaves the loop.  Joining the thread one runs on
\* raises, which stop_schedule catches after is_running and the registry
\* were reset (lines 439-442, 463-465).  Otherwise it goes round the loop:
\* the while test and the next run_pending().
PollSleepCheck(t) ==
    /\ threads[t].pc = "run"
    /\ threads[t].runnable = << >>
    /\ IF active_batches = << >> /\ is_running
       THEN /\ lock = "free"
            /\ is_running' = FALSE
            /\ jobs' = << >>
            /\ threads' = [ ClearedThreads EXCEPT ![t] = DeadThread ]
            /\ IF scheduler_thread = t
               THEN UNCHANGED << current_schedule, batches, active_batches,
                                 failed_batches >>
               ELSE StopBody
       ELSE /\ threads' = [ threads EXCEPT ![t] = LoopTest(is_running, jobs) ]
            /\ UNCHANGED << is_running, jobs, current_schedule, batches,
                            active_batches, failed_batches >>
    /\ UNCHANGED << now, config, completed_batches, scheduler_thread, plan, lock, saved, stats, call >>

\* A polling thread sleeps 30 seconds between two passes (line 414), so
\* the clock does not reach the next reading while a thread is about to make
\* a pass: a thread just started or inside a pass acts first, and so does a
\* sleeping thread for which a job is due.  A thread inside send_email_batch
\* stays there for as long as the transport takes.
MayPass(thread) ==
    \/ thread.pc \in {"dead", "send"}
    \/ /\ thread.pc = "run"
       /\ thread.runnable = << >>
       /\ \A i \in 1 .. Len(jobs) : ~ShouldRun(jobs[i], now)

\* the wall clock moves on to the next reading; what falls due between two
\* readings is seen at the later one.  A join in stop_schedule waits ten
\* seconds at most, so the clock does not reach the next reading during it.
Advance ==
    /\ \E t \in ClockTimes :
        /\ t > now
        /\ \A u \in ClockTimes : u > now => t <= u
        /\ now' = t
    /\ \A x \in ThreadIds : MayPass(threads[x])
    /\ lock = "free"
    /\ UNCHANGED << config, current_schedule, batches, active_batches,
                    completed_batches, failed_batches, is_running, jobs,
                    threads, scheduler_thread, plan, lock, saved, stats, call >>

Next ==
    \/ \E n \in 1 .. MaxEngineEmails, s \in EngineSettings : CreateSchedule(n, s)
    \/ StartSchedule
    \/ StopSchedule
    \/ PauseSchedule
    \/ ResumeSchedule
    \/ \E t \in ThreadIds : PollRunPending(t)
    \/ \E t \in ThreadIds : DispatchBegin(t)
    \/ \E t \in ThreadIds : DispatchSucceeds(t)
    \/ \E t \in ThreadIds : DispatchFails(t)
    \/ \E t \in ThreadIds : DispatchRaises(t)
    \/ \E t \in ThreadIds : PollSleepCheck(t)
    \/ Advance

Spec == Init /\ [][Next]_vars

(***************************************************************************)
(* The manager with the caller's requests recorded, retries switched off:  *)
(* the requests the manager refuses are made too, and create_schedule is   *)
(* also called without recipients and with settings that break the         *)
(* constraints.                                                            *)
(***************************************************************************)
InitCalls ==
    /\ now = AtTime(0, 480)
    /\ config = [ retry_failed_emails |-> FALSE, retry_attempts |-> 0,
                  retry_delay_minutes |-> 0 ]
    /\ current_schedule = NoSchedule
    /\ batches = << >>
    /\ active_batches = << >>
    /\ completed_batches = << >>
    /\ failed_batches = << >>
    /\ is_running = FALSE
    /\ jobs = << >>
    /\ threads = [ t \in ThreadIds |-> DeadThread ]
    /\ scheduler_thread = 0
    /\ lock = "free"
    /\ plan = NoPlan
    /\ saved = << >>
    /\ stats = NoStats
    /\ call = FirstCall

NextCalls ==
    \/ \E n \in 0 .. MaxCallEmails, s \in EngineSettings \cup BadSettings :
          CreateSchedule(n, s)
    \/ StartSchedule
    \/ StartRefused
    \/ StopSchedule
    \/ StopRefused
    \/ PauseSchedule
    \/ PauseRefused
    \/ ResumeSchedule
    \/ ResumeRefused
    \/ \E t \in ThreadIds : PollRunPending(t)
    \/ \E t \in ThreadIds : DispatchBegin(t)
    \/ \E t \in ThreadIds : DispatchSucceeds(t)
    \/ \E t \in ThreadIds : DispatchFails(t)
    \/ \E t \in ThreadIds : DispatchRaises(t)
    \/ \E t \in ThreadIds : PollSleepCheck(t)
    \/ Advance

SpecCalls == InitCalls /\ [][NextCalls]_vars

(***************************************************************************)
(* The manager with stop_schedule in two steps, before and after its join, *)
(* retries switched on.                                                    *)
(***************************************************************************)
InitLock ==
    /\ now = AtTime(0, 480)
    /\ config = [ retry_failed_emails |-> TRUE, retry_attempts |-> 2,
                  retry_delay_minutes |-> 0 ]
    /\ current_schedule = NoSchedule
    /\ batches = << >>
    /\ active_batches = << >>
    /\ completed_batches = << >>
    /\ failed_batches = << >>
    /\ is_running = FALSE
    /\ jobs = << >>
    /\ threads = [ t \in ThreadIds |-> DeadThread ]
    /\ scheduler_thread = 0
    /\ lock = "free"
    /\ plan = NoPlan
    /\ saved = << >>
    /\ stats = NoStats
    /\ call = NoCall

NextLock ==
    \/ \E n \in 1 .. MaxEngineEmails, s \in EngineSettings : CreateSchedule(n, s)
    \/ StartSchedule
    \/ StopSchedule
    \/ StopBegin
    \/ StopEnd
    \/ PauseSchedule
    \/ ResumeSchedule
    \/ \E t \in ThreadIds : PollRunPending(t)
    \/ \E t \in ThreadIds : DispatchBegin(t)
    \/ \E t \in ThreadIds : DispatchSucceeds(t)
    \/ \E t \in ThreadIds : DispatchFails(t)
    \/ \E t \in ThreadIds : DispatchRaises(t)
    \/ \E t \in ThreadIds : PollSleepCheck(t)
    \/ Advance

SpecLock == InitLock /\ [][NextLock]_vars

(***************************************************************************)
(* The manager with retries switched off, once with recipient lists that   *)
(* need a second day and once with a second schedule created after the     *)
(* first.                                                                  *)
(***************************************************************************)
InitWide ==
    /\ now = AtTime(0, 480)
    /\ config = [ retry_failed_emails |-> FALSE, retry_attempts |-> 0,
                  retry_delay_minutes |-> 0 ]
    /\ current_schedule = NoSchedule
    /\ batches = << >>
    /\ active_batches = << >>
    /\ completed_batches = << >>
    /\ failed_batches = << >>
    /\ is_running = FALSE
    /\ jobs = << >>
    /\ threads = [ t \in ThreadIds |-> DeadThread ]
    /\ scheduler_thread = 0
    /\ lock = "free"
    /\ plan = NoPlan
    /\ saved = << >>
    /\ stats = NoStats
    /\ call = NoCall

NextDay ==
    \/ \E n \in 1 .. MaxDayEmails, s \in EngineSettings : CreateSchedule(n, s)
    \/ StartSchedule
    \/ StopSchedule
    \/ PauseSchedule
    \/ ResumeSchedule
    \/ \E t \in ThreadIds : PollRunPending(t)
    \/ \E t \in ThreadIds : DispatchBegin(t)
    \/ \E t \in ThreadIds : DispatchSucceeds(t)
    \/ \E t \in ThreadIds : DispatchFails(t)
    \/ \E t \in ThreadIds : DispatchRaises(t)
    \/ \E t \in ThreadIds : PollSleepCheck(t)
    \/ Advance

SpecDay == InitWide /\ [][NextDay]_vars

NextTwo ==
    \/ \E n \in 1 .. MaxCallEmails, s \in EngineSettings :
          CreateWithin(n, s, MaxTwoSchedules)
    \/ StartSchedule
    \/ StopSchedule
    \/ PauseSchedule
    \/ ResumeSchedule
    \/ \E t \in ThreadIds : PollRunPending(t)
    \/ \E t \in ThreadIds : DispatchBegin(t)
    \/ \E t \in ThreadIds : DispatchSucceeds(t)
    \/ \E t \in ThreadIds : DispatchFails(t)
    \/ \E t \in ThreadIds : DispatchRaises(t)
    \/ \E t \in ThreadIds : PollSleepCheck(t)
    \/ Advance

SpecTwo == InitWide /\ [][NextTwo]_vars

(***************************************************************************)
(* The planner on its own: the inputs are drawn in InitPlan and PlanRun    *)
(* applies _generate_batches to them.                                      *)
(***************************************************************************)
\* a call with a longer list: 25 recipients, 10 a day in batches of 5 from
\* 09:00, 5 minutes apart, every day of the week
LargeInput ==
    [ emails |-> Recipients(25),
      settings |-> [ emails_per_day |-> 10, emails_per_batch |-> 5,
                     start_time |-> 540, working_days_only |-> FALSE,
                     batch_interval_minutes |-> 5 ] ]

InitPlan ==
    /\ now = AtTime(0, 480)
    /\ config = [ retry_failed_emails |-> TRUE, retry_attempts |-> 0,
                  retry_delay_minutes |-> 0 ]
    /\ current_schedule = NoSchedule
    /\ batches = << >>
    /\ active_batches = << >>
    /\ completed_batches = << >>
    /\ failed_batches = << >>
    /\ is_running = FALSE
    /\ jobs = << >>
    /\ threads = [ t \in ThreadIds |-> DeadThread ]
    /\ scheduler_thread = 0
    /\ lock = "free"
    /\ saved = << >>
    /\ stats = NoStats
    /\ call = NoCall
    /\ plan \in { [ emails |-> Recipients(n), settings |-> s, today |-> d,
                    done |-> FALSE, batches |-> << >> ] :
                  n \in 0 .. MaxEmails, s \in ValidSettings, d \in Todays }
           \cup { [ emails |-> LargeInput.emails, settings |-> LargeInput.settings,
                    today |-> d, done |-> FALSE, batches |-> << >> ] :
                  d \in Todays }

PlanRun ==
    /\ ~plan.done
    /\ plan' = [ plan EXCEPT
                   !.done = TRUE,
                   !.batches = GenerateBatches(plan.emails, plan.settings,
                                               plan.today) ]
    /\ UNCHANGED engineVars

NextPlan == PlanRun

SpecPlan == InitPlan /\ [][NextPlan]_vars


(***************************************************************************)
(* Claims about the planner (checked under SpecPlan).                      *)
(***************************************************************************)
\* the calendar dates that carry a planned batch
PlannedDates ==
    { DateOf(plan.batches[i].scheduled_time) : i \in 1 .. Len(plan.batches) }

\* the batches planned on the date d
BatchesOn(d) ==
    { i \in 1 .. Len(plan.batches) : DateOf(plan.batches[i].scheduled_time) = d }

RECURSIVE Concat(_, _)
Concat(bs, i) ==
    IF i > Len(bs) THEN << >> ELSE bs[i].emails \o Concat(bs, i + 1)

\* C3: on every calendar date, the recipients of the batches whose
\* scheduled_time falls on that date number at most emails_per_day.
DailyCapHolds ==
    plan.done =>
        \A d \in PlannedDates :
            DayCount(plan.batches, d) <= plan.settings.emails_per_day

\* C3 witness: a plan in which a batch rolled past midnight onto a date that
\* also carries a batch of its own day, and that date is filled to the cap.
DailyCapWitness ==
    /\ plan.done
    /\ \E d \in PlannedDates :
        /\ DayCount(plan.batches, d) = plan.settings.emails_per_day
        /\ \E i, k \in BatchesOn(d) :
            /\ i # k
            /\ TimeOfDay(plan.batches[i].scheduled_time) # plan.settings.start_time
            /\ TimeOfDay(plan.batches[k].scheduled_time) = plan.settings.start_time

\* C4: every planned batch is non-empty and holds at most emails_per_batch
\* recipients.
BatchSizeBounded ==
    plan.done =>
        \A i \in 1 .. Len(plan.batches) :
            /\ Len(plan.batches[i].emails) >= 1
            /\ Len(plan.batches[i].emails) <= plan.settings.emails_per_batch

\* C4 witness: a plan with a full batch and a shorter last batch.
BatchSizeWitness ==
    /\ plan.done
    /\ Len(plan.batches) >= 2
    /\ plan.settings.emails_per_batch >= 2
    /\ Len(plan.batches[1].emails) = plan.settings.emails_per_batch
    /\ Len(plan.batches[Len(plan.batches)].emails) < plan.settings.emails_per_batch

\* C5: the recipient sequences of the planned batches, concatenated in
\* batch order, are the input list.
PartitionInOrder ==
    plan.done => Concat(plan.batches, 1) = plan.emails

\* C5 witness: a plan of at least three batches over at least two dates.
PartitionWitness ==
    /\ plan.done
    /\ Len(plan.emails) >= 4
    /\ Len(plan.batches) >= 3
    /\ Cardinality(PlannedDates) >= 2

\* C6: with working_days_only, no planned batch has a scheduled_time on a
\* Saturday or Sunday.
WorkingDaysOnly ==
    (plan.done /\ plan.settings.working_days_only) =>
        \A i \in 1 .. Len(plan.batches) :
            ~IsWeekend(DateOf(plan.batches[i].scheduled_time))


(***************************************************************************)
(* Claims about the execution engine (checked under Spec).                 *)
(***************************************************************************)
BatchIds == DOMAIN batches

\* the batches of the current schedule
CurrentBatches ==
    { b \in BatchIds : batches[b].schedule_id = current_schedule.schedule_id }

\* a step that keeps the current schedule and changes its status
SameSchedule ==
    current_schedule'.schedule_id = current_schedule.schedule_id

\* a step in which stop_schedule runs (from the caller or from the thread)
StopStep == is_running /\ ~is_running'

\* C1: every batch instance is handed to send_email_batch at most once.
SingleDispatch ==
    \A b \in BatchIds : batches[b].dispatched <= 1

\* C2: once stop_schedule has stopped a running or paused schedule, every
\* batch that was pending is cancelled, no batch of the schedule is pending,
\* and the batches already sent or failed keep their status.
StopInvariant ==
    /\ [](current_schedule.status = "stopped" =>
            \A b \in CurrentBatches : batches[b].status # "pending")
    /\ [][ (/\ current_schedule.status \in {"running", "paused"}
            /\ current_schedule'.status = "stopped")
           => \A b \in BatchIds :
                /\ batches[b].status = "pending"
                       => batches'[b].status = "cancelled"
                /\ batches[b].status \in {"sent", "failed"}
                       => batches'[b].status = batches[b].status ]_vars

\* C7: the schedule status changes only along created->running,
\* running->paused, paused->running, running->stopped, paused->stopped and
\* running->completed.
ScheduleEdges ==
    { << "created", "running" >>, << "running", "paused" >>,
      << "paused", "running" >>, << "running", "stopped" >>,
      << "paused", "stopped" >>, << "running", "completed" >> }

ScheduleStateMachine ==
    [][ (SameSchedule /\ current_schedule'.status # current_schedule.status)
        => << current_schedule.status, current_schedule'.status >>
               \in ScheduleEdges ]_vars

\* C8: a stopped schedule is never running again: no start or resume of it
\* succeeds.
StoppedIsTerminal ==
    [][ (SameSchedule /\ current_schedule.status = "stopped")
        => current_schedule'.status # "running" ]_vars

\* C9: a batch status changes only pending->sent, pending->failed or
\* pending->cancelled, and it becomes cancelled only in a stop.
BatchStateMachine ==
    [][ \A b \in BatchIds :
          batches'[b].status # batches[b].status
          => /\ batches[b].status = "pending"
             /\ batches'[b].status \in {"sent", "failed", "cancelled"}
             /\ batches'[b].status = "cancelled" => StopStep ]_vars

\* the original batch a retry batch descends from
RECURSIVE Root(_, _)
Root(bs, b) ==
    IF bs[b].original_batch_id = 0 THEN b ELSE Root(bs, bs[b].original_batch_id)

\* the retry batches created so far for the original batch o
RetriesOf(bs, o) == { b \in DOMAIN bs : b # o /\ Root(bs, b) = o }

\* C10: a batch that has failed retry_attempts + 1 times in total stays
\* failed and gets no further retry, and an original batch never gets more
\* than retry_attempts retry batches.
RetryExhaustion ==
    /\ [](\A o \in BatchIds :
            batches[o].original_batch_id = 0
            => Cardinality(RetriesOf(batches, o)) <= config.retry_attempts)
    /\ [][ \A b \in BatchIds :
             (/\ config.retry_failed_emails
              /\ batches[b].status = "failed"
              /\ batches[b].attempts >= config.retry_attempts + 1)
             => /\ batches'[b].status = "failed"
                /\ RetriesOf(batches', Root(batches, b))
                       = RetriesOf(batches, Root(batches, b)) ]_vars

\* a step in which the dispatch of batch b by thread t ends in failure
\* (the transport reported failure or raised)
FailStep(t, b) ==
    /\ threads[t].pc = "send"
    /\ threads[t].job.batch = b
    /\ threads'[t].pc = "run"
    /\ batches'[b].status = "failed"

\* C11: when a dispatch fails, retry is enabled and the failed batch had
\* fewer than retry_attempts attempts, exactly one new pending batch is
\* created with the same recipients, one attempt more, scheduled_time
\* now + retry_delay and a link to the failed batch; otherwise no batch is
\* created.
RetryCreation ==
    [][ \A t \in ThreadIds : \A b \in BatchIds :
          FailStep(t, b)
          => IF config.retry_failed_emails
                /\ batches[b].attempts < config.retry_attempts
             THEN /\ Len(batches') = Len(batches) + 1
                  /\ LET rb == batches'[Len(batches')]
                     IN  /\ rb.status = "pending"
                         /\ rb.emails = batches[b].emails
                         /\ rb.attempts = batches[b].attempts + 1
                         /\ rb.scheduled_time = now + config.retry_delay_minutes
                         /\ rb.original_batch_id = b
             ELSE Len(batches') = Len(batches) ]_vars

\* a step in which thread t comes back from send_email_batch
DispatchEnds(t) == threads[t].pc = "send" /\ threads'[t].pc = "run"

\* the batches that have an armed job
Armed(registry) == { registry[i].batch : i \in 1 .. Len(registry) }

\* C12: when a dispatch that was in flight during stop_schedule ends on a
\* stopped schedule, the batch's result is recorded, no retry batch is
\* created or armed, the status stays stopped and no batch is pending.
StopVersusDispatch ==
    [][ \A t \in ThreadIds :
          (DispatchEnds(t) /\ current_schedule.status = "stopped")
          => /\ batches'[threads[t].job.batch].status \in {"sent", "failed"}
             /\ Len(batches') = Len(batches)
             /\ Armed(jobs') \subseteq Armed(jobs)
             /\ current_schedule'.status = "stopped"
             /\ \A b \in DOMAIN batches' : batches'[b].status # "pending" ]_vars

\* a step in which pause_schedule sets the status to paused
PauseStep ==
    current_schedule.status # "paused" /\ current_schedule'.status = "paused"

\* C13: pause_schedule alters no batch status; while the status is paused
\* no job is armed and no dispatch starts, even when a dispatch was in
\* flight at the pause.
PauseQuiesces ==
    /\ [][ PauseStep => \A b \in BatchIds :
                          batches'[b].status = batches[b].status ]_vars
    /\ [](current_schedule.status = "paused" => jobs = << >>)
    /\ [][ current_schedule.status = "paused"
           => \A b \in BatchIds :
                batches'[b].dispatched = batches[b].dispatched ]_vars

\* a step in which resume_schedule sets a paused schedule running
ResumeStep ==
    /\ current_schedule.status = "paused"
    /\ current_schedule'.status = "running"
    /\ is_running' = is_running

\* the number of armed jobs of batch b
JobCount(registry, b) ==
    Cardinality({ i \in 1 .. Len(registry) : registry[i].batch = b })

\* the pending batches of the schedule
PendingActive == { b \in Ids(active_batches) : batches[b].status = "pending" }

\* C14: resume_schedule on a paused schedule sets the status to running and
\* leaves every pending batch armed exactly once, with scheduled_time moved
\* to now + ResumeOffset when it was in the past and kept otherwise.
ResumeRearms ==
    [][ ResumeStep
        => \A b \in PendingActive :
             /\ JobCount(jobs', b) = 1
             /\ batches'[b].scheduled_time =
                    IF batches[b].scheduled_time <= now
                    THEN now + ResumeOffset
                    ELSE batches[b].scheduled_time ]_vars

\* C15: when the dispatch that ends leaves a running schedule without any
\* pending batch (the last one was sent, failed for good, or its dispatch
\* raised), the schedule status becomes completed.
CompletionReached ==
    [][ \A t \in ThreadIds :
          (/\ DispatchEnds(t)
           /\ current_schedule.status = "running"
           /\ PendingActive # {}
           /\ active_batches' = << >>)
          => current_schedule'.status = "completed" ]_vars

\* a step in which the caller's request returns
CallStep == call' # call

\* what a refused request must leave alone
Untouched ==
    UNCHANGED << current_schedule, batches, active_batches, completed_batches,
                 failed_batches, jobs >>

\* C16: start_schedule on a schedule whose status is running, and
\* resume_schedule on a schedule whose status is not paused, return failure
\* and leave the schedule status, the batches, the collections and the
\* armed jobs as they were.
InvalidRequestRefused ==
    [][ /\ (/\ CallStep
            /\ call'.op = "start"
            /\ current_schedule.status = "running")
           => (~call'.ok /\ Untouched)
        /\ (/\ CallStep
            /\ call'.op = "resume"
            /\ current_schedule.status # "paused")
           => (~call'.ok /\ Untouched) ]_vars

\* C17: a stop_schedule request that follows a stop_schedule request
\* returns and leaves the schedule status, the batch statuses and the batch
\* collections as they were.
StopIdempotent ==
    [][ (CallStep /\ call'.op = "stop" /\ call'.again)
        => UNCHANGED << current_schedule, batches, active_batches,
                        completed_batches, failed_batches >> ]_vars

\* C17 witness: stop_schedule was requested twice in a row on a schedule
\* that the first request stopped and whose batch it cancelled.
StopIdempotentWitness ==
    /\ call.op = "stop"
    /\ call.again
    /\ current_schedule.status = "stopped"
    /\ \E b \in BatchIds : batches[b].status = "cancelled"

\* C18: create_schedule without recipients returns failure and leaves the
\* current schedule, the batches, the three collections, the statistics
\* and the saved snapshots as they were.
EmptyCreateRefused ==
    [][ (CallStep /\ call'.op = "create" /\ call'.n = 0)
        => /\ ~call'.ok
           /\ UNCHANGED << current_schedule, batches, active_batches,
                           completed_batches, failed_batches, stats, saved >> ]_vars

\* C18 witness: create_schedule was requested without recipients while a
\* schedule created and started before was running.
EmptyCreateWitness ==
    /\ call.op = "create"
    /\ call.n = 0
    /\ ~call.ok
    /\ current_schedule.status = "running"
    /\ Len(saved) = 1
    /\ stats.total_schedules_created = 1

\* C19: create_schedule called with recipients and with settings that
\* break the constraints (emails_per_batch above emails_per_day, or not
\* positive) is refused before _generate_batches is invoked: it returns
\* failure, and no schedule is created or saved.
BadSettingsRefused ==
    [][ (CallStep /\ call'.op = "create" /\ call'.n > 0 /\ ~call'.valid)
        => /\ ~call'.ok
           /\ ~call'.planned
           /\ UNCHANGED << current_schedule, batches, active_batches,
                           completed_batches, failed_batches, stats, saved >> ]_vars

\* the statuses of the batches of schedule sid, in creation order
StatusList(bs, sid) ==
    LET own == SelectSeq(bs, LAMBDA b : b.schedule_id = sid)
    IN  [ i \in 1 .. Len(own) |-> own[i].status ]

\* the newest snapshot file shows the schedule and batches given
SnapshotShows(files, schedule, bs) ==
    /\ files # << >>
    /\ LET snap == files[Len(files)]
       IN  /\ snap.schedule_id = schedule.schedule_id
           /\ snap.status = schedule.status
           /\ [ i \in 1 .. Len(snap.batches) |-> snap.batches[i].status ]
                  = StatusList(bs, schedule.schedule_id)

\* C20: after the creation of a schedule and after every change of its
\* status, the newest saved snapshot has the schedule's status and its
\* batches, in order, with their statuses.
SnapshotFollows ==
    [][ current_schedule'.status # current_schedule.status
        => SnapshotShows(saved', current_schedule', batches') ]_vars

(***************************************************************************)
(* Further claims about the planner (checked under SpecPlan).              *)
(***************************************************************************)
\* batches i and k are planned on the same date with no batch of that date
\* between them in batch order
NextOnDay(i, k) ==
    /\ i < k
    /\ DateOf(plan.batches[i].scheduled_time) = DateOf(plan.batches[k].scheduled_time)
    /\ \A j \in BatchesOn(DateOf(plan.batches[i].scheduled_time)) :
         ~(i < j /\ j < k)

\* C21: the batches planned on one calendar date have strictly increasing
\* scheduled_time in batch order, and two consecutive batches of a date are
\* exactly batch_interval_minutes apart.
SpacedWithinDay ==
    plan.done =>
        \A i, k \in 1 .. Len(plan.batches) :
            NextOnDay(i, k)
            => /\ plan.batches[k].scheduled_time > plan.batches[i].scheduled_time
               /\ plan.batches[k].scheduled_time =
                      plan.batches[i].scheduled_time
                          + plan.settings.batch_interval_minutes

\* lines 180-182: the days from the earliest to the latest scheduled_time,
\* both included
TotalDays(bs) ==
    LET dates == { DateOf(bs[i].scheduled_time) : i \in 1 .. Len(bs) }
        start_date == CHOOSE d \in dates : \A e \in dates : d <= e
        end_date == CHOOSE d \in dates : \A e \in dates : d >= e
    IN  end_date - start_date + 1

\* line 190: total_batches of the ScheduleResult
TotalBatches(bs) == Len(bs)

\* C22: for 25 recipients, 10 a day, 5 a batch, start 09:00, interval 5 and
\* every day of the week allowed, planning on any date day0 gives 5 batches
\* of 5 recipients: day0+1 at 09:00 and 09:05, day0+2 at 09:00 and 09:05,
\* day0+3 at 09:00; the result reports 5 batches and 3 days.
WorkedExample ==
    (/\ plan.done
     /\ plan.emails = LargeInput.emails
     /\ plan.settings = LargeInput.settings)
    => /\ Len(plan.batches) = 5
       /\ \A i \in 1 .. Len(plan.batches) :
            /\ plan.batches[i].emails = SubSeq(plan.emails, 5 * i - 4, 5 * i)
            /\ plan.batches[i].scheduled_time =
                   AtTime(plan.today + 1 + ((i - 1) \div 2),
                          540 + 5 * ((i - 1) % 2))
       /\ TotalBatches(plan.batches) = 5
       /\ TotalDays(plan.batches) = 3

\* C24: the first batch is planned on the day after the planning date,
\* moved past Saturday and Sunday only when working_days_only is set.
FirstPlanningDay ==
    (plan.done /\ plan.batches # << >>)
    => DateOf(plan.batches[1].scheduled_time) =
           IF plan.settings.working_days_only
           THEN SkipWeekend(plan.today + 1)
           ELSE plan.today + 1

\* a date on which the planner may plan
Eligible(d) == ~(plan.settings.working_days_only /\ IsWeekend(d))

\* the first and the last date that carry a planned batch
FirstPlanned == CHOOSE d \in PlannedDates : \A e \in PlannedDates : d <= e

LastPlanned == CHOOSE d \in PlannedDates : \A e \in PlannedDates : d >= e

\* C25: every date that carries batches carries at most
\* emails_per_day \div emails_per_batch of them; every such date but the
\* last carries exactly that many, each of exactly emails_per_batch
\* recipients; and no eligible date between the first and the last planned
\* date is without batches.
DailyFill ==
    (plan.done /\ plan.batches # << >>)
    => /\ \A d \in PlannedDates :
            Cardinality(BatchesOn(d)) <= MaxDailyBatches(plan.settings)
       /\ \A d \in PlannedDates \ {LastPlanned} :
            /\ Cardinality(BatchesOn(d)) = MaxDailyBatches(plan.settings)
            /\ \A i \in BatchesOn(d) :
                 Len(plan.batches[i].emails) = plan.settings.emails_per_batch
       /\ \A d \in FirstPlanned .. LastPlanned :
            Eligible(d) => d \in PlannedDates

(***************************************************************************)
(* Further claims about the execution engine.                              *)
(***************************************************************************)
\* a step in which thread t hands a batch to send_email_batch
DispatchStarts(t) == threads[t].pc = "run" /\ threads'[t].pc = "send"

\* C23: a dispatch of a batch starts only when the batch's scheduled_time,
\* date and time of day, has been reached.
DispatchNotEarly ==
    [][ \A t \in ThreadIds :
          DispatchStarts(t)
          => batches[threads'[t].job.batch].scheduled_time <= now ]_vars

\* C26: the polling thread records the result of a dispatch (batch status,
\* the collections, a retry batch and its job, the completion of the
\* schedule) only while no operation of the caller holds schedule_lock.
LockSerializes ==
    [][ \A t \in ThreadIds : DispatchEnds(t) => lock = "free" ]_vars

\* no operation is under way: no caller holds schedule_lock and no thread
\* is inside execute_batch
Quiet == lock = "free" /\ \A t \in ThreadIds : threads[t].pc # "send"

\* the number of times the list holds batch b
Occurrences(list, b) == Cardinality({ i \in 1 .. Len(list) : list[i] = b })

\* get_current_schedule_status: total_batches
StatusTotal ==
    Len(completed_batches) + Len(failed_batches) + Len(active_batches)

\* C27: when no operation is under way, every batch of the schedule is held
\* once, by exactly one of active_batches, completed_batches and
\* failed_batches, with the status of that collection (pending; sent; failed
\* or cancelled), so that the total of the status report is the number of
\* batches of the schedule.
CollectionsConsistent ==
    Quiet =>
        /\ \A b \in CurrentBatches :
             /\ Occurrences(active_batches, b)
                    + Occurrences(completed_batches, b)
                    + Occurrences(failed_batches, b) = 1
             /\ b \in Ids(active_batches) => batches[b].status = "pending"
             /\ b \in Ids(completed_batches) => batches[b].status = "sent"
             /\ b \in Ids(failed_batches)
                    => batches[b].status \in {"failed", "cancelled"}
        /\ current_schedule.status # "none"
               => StatusTotal = Cardinality(CurrentBatches)

\* the threads that are inside schedule.run_pending(), a job's
\* execute_batch included, or asleep between two passes
InRunPending == { t \in ThreadIds : threads[t].pc \in {"run", "send"} }

\* C30: at no time are two polling threads inside their loops.
SinglePollingLoop == Cardinality(InRunPending) <= 1

\* the number of entries of the list that equal d
RECURSIVE CountOf(_, _)
CountOf(list, d) ==
    IF list = << >> THEN 0
    ELSE (IF Head(list) = d THEN 1 ELSE 0) + CountOf(Tail(list), d)

\* the recipients of the first-attempt batches of the current schedule whose
\* dispatch started on date d, batches i .. Len(bs)
RECURSIVE StartedOn(_, _, _)
StartedOn(bs, d, i) ==
    IF i > Len(bs) THEN 0
    ELSE (IF /\ bs[i].schedule_id = current_schedule.schedule_id
             /\ bs[i].original_batch_id = 0
          THEN Len(bs[i].emails) * CountOf(bs[i].started_on, d)
          ELSE 0) + StartedOn(bs, d, i + 1)

\* C28: on no calendar date do the dispatches of first-attempt batches of
\* the schedule that start on that date carry more than emails_per_day
\* recipients in total.
DailyThroughput ==
    current_schedule.status # "none"
    => \A d \in 0 .. MaxDay :
         StartedOn(batches, d, 1) <= current_schedule.settings.emails_per_day

\* a step in which create_schedule replaces an earlier schedule
Replaces ==
    /\ current_schedule.status # "none"
    /\ current_schedule'.schedule_id # current_schedule.schedule_id

\* C29: when create_schedule replaces an earlier schedule, whatever its
\* state, the three collections then hold batches of the new schedule only,
\* completed_batches and failed_batches are empty, and every armed job
\* belongs to a batch of the new schedule; and no dispatch ever starts for a
\* batch that is not of the current schedule.
ScheduleIsolation ==
    /\ [][ Replaces
           => /\ \A b \in Ids(active_batches') \cup Ids(completed_batches')
                          \cup Ids(failed_batches') \cup Armed(jobs') :
                    batches'[b].schedule_id = current_schedule'.schedule_id
              /\ completed_batches' = << >>
              /\ failed_batches' = << >> ]_vars
    /\ [][ \A t \in ThreadIds :
             DispatchStarts(t)
             => batches[threads'[t].job.batch].schedule_id
                    = current_schedule.schedule_id ]_vars

====
